---- MODULE Spec2Model ----
(***************************************************************************)
(* Model of mac_configurator.py: the profile store (ConfigManager), the    *)
(* capability providers (the *Handler classes) and the reconciliation      *)
(* pass (MacConfigurator.apply_settings) with its command-line entry.      *)
(*                                                                         *)
(* Values are one-field records, so that values of different Python types  *)
(* can be compared: [b |-> TRUE] is a bool, [i |-> 50] an int,             *)
(* [s |-> "left"] a str, [l |-> <<"a">>] a list.  None is [none |-> TRUE]. *)
(***************************************************************************)
EXTENDS Integers, Sequences, FiniteSets, TLC

VARIABLES
    schema,         \* settings_schema.json as loaded: per setting requires_admin, category, handler
    is_admin,       \* MacConfigurator.is_admin, set once in __init__
    config,         \* ConfigManager.config['settings']: a dict, key -> desired value
    file,           \* the profile file on disk: [exists, torn, settings]
    sys,            \* the live system value behind each regular setting
    mode,           \* "apply" (--apply command line) or "interactive"
    pc,             \* position of the process
    pos,            \* apply_settings: index in the registry of the setting being collected
    to_apply,       \* apply_settings: list of (setting_key, configured_value)
    skipped_admin,  \* apply_settings: list of (setting_key, configured_value)
    k,              \* apply_settings: index in to_apply of the item being applied
    success_count,  \* apply_settings: counter
    fail_count,     \* apply_settings: counter
    diff,           \* history: the items of this pass, each a key and its class
    last,           \* the latest observation of the collecting loop: current_value
    invoked,        \* history: keys whose set_value was called in this pass, in order
    applied,        \* history: keys printed with a check mark in this pass
    failed,         \* history: keys printed with a cross in this pass
    raised,         \* history: what raised when the process died ("" if nothing)
    exit_code,      \* "running", "0" or "1"
    call,           \* history: the last profile store call, its arguments and result
    os_admin,       \* whether the user is in the admin group now: what is_admin() would return
    flags,          \* history: the values of self.is_admin read by the passes of this process
    observe,        \* how the read of each setting ends, for the passes run twice
    first,          \* history: what the first of two passes collected
    warned,         \* history: the setting ids the warnings printed at construction name
    dir,            \* the configs directory: the names of the profile files in it
    hcall,          \* a call of a list or mapping handler on its own: argument, login items, result
    categories      \* MacConfigurator.categories: the bound settings, in the order the loops visit them

storeVars == <<config, file, call>>
passVars == <<pos, to_apply, skipped_admin, k, success_count, fail_count,
              diff, last, invoked, applied, failed>>
vars == <<schema, is_admin, config, file, sys, mode, pc, pos, to_apply,
          skipped_admin, k, success_count, fail_count, diff, last, invoked,
          applied, failed, raised, exit_code, call, os_admin, flags, observe,
          first, warned, dir, hcall, categories>>

---------------------------------------------------------------------------
\* Bounds of the model.

\* The longest list of blocked startup items a profile holds.
MaxBlocked == 1

\* The longest profile name, in pieces, and the most profiles created.
MaxName == 2
MaxConfigs == 2

---------------------------------------------------------------------------
\* Values.

None == [none |-> TRUE]
PyBool(x) == [b |-> x]
PyInt(x) == [i |-> x]
PyStr(x) == [s |-> x]
PyList(x) == [l |-> x]
PyMap(x) == [m |-> x]

IsBool(v) == DOMAIN v = {"b"}
IsInt(v) == DOMAIN v = {"i"}
IsStr(v) == DOMAIN v = {"s"}
IsList(v) == DOMAIN v = {"l"}
IsMap(v) == DOMAIN v = {"m"}

\* Python ==, where bool is a subclass of int: False == 0 and True == 1.
AsNumber(v) == IF IsBool(v) THEN (IF v.b THEN 1 ELSE 0) ELSE v.i
PyEq(a, c) ==
    IF (IsBool(a) \/ IsInt(a)) /\ (IsBool(c) \/ IsInt(c))
    THEN AsNumber(a) = AsNumber(c)
    ELSE a = c

\* Python truth value of a desired value: an empty list, an empty mapping, 0,
\* False and "" are falsy.
Truthy(v) ==
    CASE IsBool(v) -> v.b
      [] IsInt(v) -> v.i # 0
      [] IsStr(v) -> v.s # ""
      [] IsList(v) -> v.l # <<>>
      [] IsMap(v) -> DOMAIN v.m # {}
      [] OTHER -> FALSE

---------------------------------------------------------------------------
\* The registry: the settings the program binds to a handler.

RegularSettings == {"wifi_enabled", "audio_output_volume", "dock_position"}
\* The settings whose desired value is a mapping from a name to a boolean.
MappingSettings == {"background_app_permissions", "system_extension_preferences"}
\* The settings apply_settings never reads the live value of.
SpecialSettings == {"startup_items_blocked"} \cup MappingSettings
Settings == RegularSettings \cup SpecialSettings

\* Order of the properties in the schema source.
SchemaOrder == <<"wifi_enabled", "audio_output_volume", "dock_position",
                 "startup_items_blocked", "background_app_permissions",
                 "system_extension_preferences">>

VolumeMin == 0
VolumeMax == 100
Positions == {"left", "bottom", "right"}
PositionDefault == "bottom"

\* Names of login items, and the list of the first n of them.
ItemNames == <<"a", "b", "c">>
Blocked(n) == PyList(SubSeq(ItemNames, 1, n))

\* Bundle ids of extensions and names of background apps, in the order a
\* mapping lists them, and the mappings a profile may hold: empty, one entry
\* to enable, and one to enable with one to disable.
BundleIds == <<"x", "y">>
Preferences ==
    {PyMap([id \in {} |-> TRUE]),
     PyMap([id \in {"x"} |-> TRUE]),
     PyMap([id \in {"x", "y"} |-> id = "x"])}

\* The desired values a profile may hold for a key.  150 is outside the range
\* of the volume: a profile file that does not validate is loaded all the same.
DesiredValues(key) ==
    CASE key = "wifi_enabled" -> {PyBool(TRUE), PyBool(FALSE)}
      [] key = "audio_output_volume" -> {PyInt(0), PyInt(150)}
      [] key = "dock_position" -> {PyStr("left"), PyStr("bottom")}
      [] key = "startup_items_blocked" -> {Blocked(n) : n \in 0..MaxBlocked}
      [] key = "background_app_permissions" ->
            {PyMap([id \in {} |-> TRUE]), PyMap([id \in {"x"} |-> TRUE])}
      [] key = "system_extension_preferences" -> Preferences

\* The values the live system may have for a regular setting.
SystemValues(key) ==
    CASE key = "wifi_enabled" -> {PyBool(TRUE), PyBool(FALSE)}
      [] key = "audio_output_volume" -> {PyInt(0), PyInt(100)}
      [] key = "dock_position" -> {PyStr("left"), PyStr("bottom")}

AllDesired == UNION {DesiredValues(key) : key \in Settings}

\* A dict with the keys of d and key, key mapped to value.
DictSet(d, key, value) ==
    [x \in DOMAIN d \cup {key} |-> IF x = key THEN value ELSE d[x]]
\* The dict d without key.
DictDel(d, key) == [x \in DOMAIN d \ {key} |-> d[x]]
EmptyDict == [x \in {} |-> None]

\* Every dict over a subset of keys with values from values(key).
DictsOver(keys) ==
    UNION {{d \in [D -> AllDesired] : \A key \in D : d[key] \in DesiredValues(key)}
           : D \in SUBSET keys}

---------------------------------------------------------------------------
\* Schema validation (jsonschema.validate of one value against the schema
\* of its setting, then of the whole profile against the whole schema).

\* A validation that looks at the JSON type only.
ValidValueTypeOnly(key, value) ==
    CASE key = "wifi_enabled" -> IsBool(value)
      [] key = "audio_output_volume" -> IsInt(value)
      [] key = "dock_position" -> IsStr(value)
      [] key = "startup_items_blocked" -> IsList(value)
      [] key \in MappingSettings -> IsMap(value)
      [] OTHER -> FALSE

\* The value has the JSON type the property declares and meets its limits.
ValidValue(key, value) ==
    CASE key = "wifi_enabled" -> IsBool(value)
      [] key = "audio_output_volume" ->
            IsInt(value) /\ VolumeMin <= value.i /\ value.i <= VolumeMax
      [] key = "dock_position" -> IsStr(value) /\ value.s \in Positions
      [] key = "startup_items_blocked" -> IsList(value)
      [] key \in MappingSettings -> IsMap(value)
      [] OTHER -> FALSE

\* jsonschema.validate(instance=config, schema=self.schema)
ValidConfig(c) ==
    \A key \in DOMAIN c :
        IF key \in Settings THEN ValidValue(key, c[key]) ELSE schema.additional

\* load_config prints the message and the path of the validation error of a
\* profile that does not validate: the ids such a warning may name.
LoadDiagnostics(c) ==
    {key \in DOMAIN c :
        IF key \in Settings THEN ~ValidValue(key, c[key]) ELSE ~schema.additional}

---------------------------------------------------------------------------
\* The profile store (ConfigManager).  A call that raises ValueError leaves
\* what it had done before the raise.

\* json.dump of one value that writes True and False as the numbers 1 and 0.
JsonDumpBoolAsNumber(v) ==
    CASE IsBool(v) -> [num |-> IF v.b THEN 1 ELSE 0]
      [] IsInt(v) -> [num |-> v.i]
      [] IsStr(v) -> [str |-> v.s]
      [] IsList(v) -> [arr |-> [j \in 1..Len(v.l) |-> [str |-> v.l[j]]]]
      [] IsMap(v) ->
           [obj |-> [id \in DOMAIN v.m |->
                        [lit |-> IF v.m[id] THEN "true" ELSE "false"]]]
      [] OTHER -> [lit |-> "null"]

\* json.dump of one value: the JSON text, as the kind of token it is written
\* with (the literals true, false and null, a number, a string, an array of
\* strings, an object of literals).
JsonDump(v) ==
    CASE IsBool(v) -> [lit |-> IF v.b THEN "true" ELSE "false"]
      [] IsInt(v) -> [num |-> v.i]
      [] IsStr(v) -> [str |-> v.s]
      [] IsList(v) -> [arr |-> [j \in 1..Len(v.l) |-> [str |-> v.l[j]]]]
      [] IsMap(v) ->
           [obj |-> [id \in DOMAIN v.m |->
                        [lit |-> IF v.m[id] THEN "true" ELSE "false"]]]
      [] OTHER -> [lit |-> "null"]

\* json.load of one JSON text: true and false are bool, a number is int, a
\* string is str, an array is list, an object is dict, null is None.
JsonLoad(t) ==
    CASE DOMAIN t = {"lit"} /\ t.lit = "true" -> PyBool(TRUE)
      [] DOMAIN t = {"lit"} /\ t.lit = "false" -> PyBool(FALSE)
      [] DOMAIN t = {"num"} -> PyInt(t.num)
      [] DOMAIN t = {"str"} -> PyStr(t.str)
      [] DOMAIN t = {"arr"} -> PyList([j \in 1..Len(t.arr) |-> t.arr[j].str])
      [] DOMAIN t = {"obj"} ->
           PyMap([id \in DOMAIN t.obj |-> t.obj[id].lit = "true"])
      [] OTHER -> None

NoFile == [exists |-> FALSE, torn |-> FALSE, settings |-> EmptyDict]
\* The file json.dump(self.config, f, indent=2) writes for the profile c.
OnDisk(c) ==
    [exists |-> TRUE, torn |-> FALSE,
     settings |-> [key \in DOMAIN c |-> JsonDump(c[key])]]
\* The file after open(path, 'w') has emptied it and json.dump has not
\* written all of the profile: not a JSON document.
Torn == [exists |-> TRUE, torn |-> TRUE, settings |-> EmptyDict]

\* How writing the file ends: "ok", or "io_error" when the write fails part
\* way (OSError: the disk is full, the volume went away).
WriteOutcomes == {"ok", "io_error"}

\* load_config: the file's settings, valid or not; empty without a file;
\* json.load raises JSONDecodeError for a file that is not a JSON document.
LoadConfig(f) ==
    IF ~f.exists THEN [exc |-> "", config |-> EmptyDict]
    ELSE IF f.torn THEN [exc |-> "JSONDecodeError", config |-> EmptyDict]
    ELSE [exc |-> "", config |-> [key \in DOMAIN f.settings |->
                                     JsonLoad(f.settings[key])]]

\* save_config: [exc, msg, file] for the in-memory profile c.  The file is
\* opened with 'w', which empties it, and then written in place.
SaveConfig(c, f, w) ==
    IF ~ValidConfig(c)
    THEN [exc |-> "ValueError", msg |-> "Configuration validation failed", file |-> f]
    ELSE IF w = "io_error"
    THEN [exc |-> "OSError", msg |-> "", file |-> Torn]
    ELSE [exc |-> "", msg |-> "", file |-> OnDisk(c)]

\* A set_setting that stores the value before it validates it.
SetSettingStoreFirst(key, value, c, f, w) ==
    LET c2 == DictSet(c, key, value)
    IN  IF key \notin Settings
        THEN [exc |-> "ValueError", msg |-> "Unknown setting", config |-> c2, file |-> f]
        ELSE IF ~ValidValue(key, value)
        THEN [exc |-> "ValueError", msg |-> "Invalid value", config |-> c2, file |-> f]
        ELSE LET saved == SaveConfig(c2, f, w)
             IN  [exc |-> saved.exc, msg |-> saved.msg, config |-> c2,
                  file |-> saved.file]

\* A set_setting that takes its change back when the save raises.
SetSettingRollback(key, value, c, f, w) ==
    IF key \notin Settings
    THEN [exc |-> "ValueError", msg |-> "Unknown setting", config |-> c, file |-> f]
    ELSE IF ~ValidValue(key, value)
    THEN [exc |-> "ValueError", msg |-> "Invalid value", config |-> c, file |-> f]
    ELSE LET c2 == DictSet(c, key, value)
             saved == SaveConfig(c2, f, w)
         IN  [exc |-> saved.exc, msg |-> saved.msg,
              config |-> IF saved.exc = "" THEN c2 ELSE c, file |-> saved.file]

\* set_setting: [exc, msg, config, file].  The key is looked up first, then
\* the value is validated, then the profile is changed and saved.
SetSetting(key, value, c, f, w) ==
    IF key \notin Settings
    THEN [exc |-> "ValueError", msg |-> "Unknown setting", config |-> c, file |-> f]
    ELSE IF ~ValidValue(key, value)
    THEN [exc |-> "ValueError", msg |-> "Invalid value", config |-> c, file |-> f]
    ELSE LET c2 == DictSet(c, key, value)
             saved == SaveConfig(c2, f, w)
         IN  [exc |-> saved.exc, msg |-> saved.msg, config |-> c2,
              file |-> saved.file]

\* delete_setting: [exc, ret, config, file].
DeleteSetting(key, c, f, w) ==
    IF key \in DOMAIN c
    THEN LET c2 == DictDel(c, key)
             saved == SaveConfig(c2, f, w)
         IN  [exc |-> saved.exc, ret |-> TRUE, config |-> c2, file |-> saved.file]
    ELSE [exc |-> "", ret |-> FALSE, config |-> c, file |-> f]

\* get_setting: the value, None for a key that is not configured.
GetSetting(key, c) == IF key \in DOMAIN c THEN c[key] ELSE None

\* A pass that takes a falsy desired value for no desired value.
IsConfiguredTruthy(key, c) == Truthy(GetSetting(key, c))

\* configured_value = self.config_manager.get_setting(setting_key), and the
\* negation of: if configured_value is None: continue
IsConfigured(key, c) == GetSetting(key, c) # None

\* has_setting
HasSetting(key, c) == key \in DOMAIN c

---------------------------------------------------------------------------
\* The capability providers.  Each call runs external commands; how they end
\* is an input: "ok" (exit 0), "nonzero" (subprocess.CalledProcessError from
\* the first command), "nonzero_late" (CalledProcessError from the last
\* command, after the write was done) or "missing" (the command is not there:
\* FileNotFoundError, which no handler of these settings catches).

ObserveOutcomes == {"ok", "nonzero", "missing"}
ApplyOutcomes == {"ok", "nonzero", "nonzero_late", "missing"}

\* WiFiHandler.get_current_state, AudioOutputHandler.get_volume: None on failure.
\* DockHandler.get_position: 'bottom' on failure.
ObserveFailed(key) ==
    IF key = "dock_position" THEN PyStr(PositionDefault) ELSE None

\* A getter that, when its read fails, writes the default it returns.
GetCurrentWritingDefault(key, outcome, live) ==
    CASE outcome = "ok" -> [exc |-> "", value |-> live[key], live |-> live]
      [] outcome = "nonzero" ->
           [exc |-> "", value |-> ObserveFailed(key),
            live |-> IF key = "dock_position"
                     THEN [live EXCEPT ![key] = ObserveFailed(key)] ELSE live]
      [] OTHER -> [exc |-> "FileNotFoundError", value |-> None, live |-> live]

\* setting_info['get_current'](): [exc |-> the exception that escapes or "",
\* value |-> the value returned, live |-> the system afterwards].  The
\* commands of the getters only read (-getairportpower, get volume settings,
\* defaults read).
GetCurrent(key, outcome, live) ==
    CASE outcome = "ok" -> [exc |-> "", value |-> live[key], live |-> live]
      [] outcome = "nonzero" ->
           [exc |-> "", value |-> ObserveFailed(key), live |-> live]
      [] OTHER -> [exc |-> "FileNotFoundError", value |-> None, live |-> live]

\* max(0, min(100, volume))
Clamp(n) ==
    LET m == IF VolumeMax < n THEN VolumeMax ELSE n
    IN  IF VolumeMin > m THEN VolumeMin ELSE m

\* The value the provider's command writes for a desired value.
Written(key, value) ==
    CASE key = "wifi_enabled" -> PyBool(Truthy(value))
      [] key = "audio_output_volume" -> PyInt(Clamp(AsNumber(value)))
      [] OTHER -> value

\* A provider that reports success without having written anything.
SetValueNoWrite(key, value, outcome, live) ==
    CASE outcome = "ok" -> [exc |-> "", ok |-> TRUE, live |-> live]
      [] outcome = "missing" -> [exc |-> "FileNotFoundError", ok |-> FALSE, live |-> live]
      [] OTHER -> [exc |-> "", ok |-> FALSE, live |-> live]

\* setting_info['set_value'](value): [exc |-> the exception that escapes or "",
\* ok |-> the value returned, live |-> the system afterwards].
SetValueRegular(key, value, outcome, live) ==
    LET wrote == [live EXCEPT ![key] = Written(key, value)]
    IN  CASE key = "audio_output_volume" /\ ~(IsInt(value) \/ IsBool(value)) ->
               [exc |-> "TypeError", ok |-> FALSE, live |-> live]
          [] key = "dock_position" /\ ~(IsStr(value) /\ value.s \in Positions) ->
               [exc |-> "", ok |-> FALSE, live |-> live]
          [] outcome = "ok" -> [exc |-> "", ok |-> TRUE, live |-> wrote]
          [] outcome = "nonzero" -> [exc |-> "", ok |-> FALSE, live |-> live]
          [] outcome = "nonzero_late" ->
               [exc |-> "", ok |-> FALSE,
                live |-> IF key = "dock_position" THEN wrote ELSE live]
          [] OTHER -> [exc |-> "FileNotFoundError", ok |-> FALSE, live |-> live]

\* StartupItemsHandler.get_blocked_items: a placeholder, always the empty list.
GetBlockedItems == PyList(<<>>)

\* How one command of a handler ends: exit status 0 or not.
Exits == {"ok", "nonzero"}

\* StartupItemsHandler.get_login_items: the names System Events reports;
\* none when osascript exits non-zero; FileNotFoundError without osascript.
GetLoginItems(read, items) ==
    CASE read = "ok" -> [exc |-> "", items |-> items]
      [] read = "nonzero" -> [exc |-> "", items |-> {}]
      [] OTHER -> [exc |-> "FileNotFoundError", items |-> {}]

\* for item_name in blocked_list: if item_name in current_items: delete it;
\* the first n names, the deletion of the j-th name ending as exits[j].
RECURSIVE DeleteLoop(_, _, _, _)
DeleteLoop(blocked_list, current_items, exits, n) ==
    IF n = 0 THEN [success |-> TRUE, attempts |-> <<>>, deleted |-> {}]
    ELSE LET before == DeleteLoop(blocked_list, current_items, exits, n - 1)
             item_name == blocked_list[n]
         IN  IF item_name \in current_items
             THEN [success |-> before.success /\ exits[n] = "ok",
                   attempts |-> Append(before.attempts,
                                       [name |-> item_name, exit |-> exits[n]]),
                   deleted |-> IF exits[n] = "ok"
                               THEN before.deleted \cup {item_name}
                               ELSE before.deleted]
             ELSE before

\* StartupItemsHandler.set_blocked_items on a system whose login items are
\* items: [exc, ok, read, attempts, items].  read tells whether the login
\* items were asked for, attempts lists the deletions run, each with the
\* name and the exit status.
SetBlockedItemsOn(blocked_list, items, read, exits) ==
    IF blocked_list = <<>>
    THEN [exc |-> "", ok |-> TRUE, read |-> FALSE, attempts |-> <<>>,
          items |-> items]
    ELSE LET got == GetLoginItems(read, items)
             run == DeleteLoop(blocked_list, got.items, exits, Len(blocked_list))
         IN  IF got.exc # ""
             THEN [exc |-> got.exc, ok |-> FALSE, read |-> TRUE,
                   attempts |-> <<>>, items |-> items]
             ELSE [exc |-> "", ok |-> run.success, read |-> TRUE,
                   attempts |-> run.attempts, items |-> items \ run.deleted]

\* The exit status of the j-th of n commands of one apply: all end well, all
\* exit non-zero, or only the last one does.
ExitOf(outcome, j, n) ==
    IF outcome = "ok" \/ (outcome = "nonzero_late" /\ j < n)
    THEN "ok" ELSE "nonzero"

\* StartupItemsHandler.set_blocked_items in a pass: every blocked name is a
\* login item; the login items are not part of the state of the pass.
SetBlockedItems(value, outcome, live) ==
    LET blocked_list == IF IsList(value) THEN value.l ELSE <<>>
        n == Len(blocked_list)
        run == SetBlockedItemsOn(blocked_list,
                                 {blocked_list[j] : j \in 1..n},
                                 IF outcome = "missing" THEN "missing" ELSE "ok",
                                 [j \in 1..n |-> ExitOf(outcome, j, n)])
    IN  [exc |-> run.exc, ok |-> run.ok, live |-> live, attempts |-> run.attempts]

\* BackgroundAppsHandler.set_background_permissions: a placeholder that runs
\* no command and returns True.
SetBackgroundPermissions(value, outcome, live) ==
    [exc |-> "", ok |-> TRUE, live |-> live, attempts |-> <<>>]

\* enable_extension and disable_extension: pluginkit -e use|ignore -i id.
ExtensionAction(should_enable) == IF should_enable THEN "use" ELSE "ignore"

\* for bundle_id, should_enable in preferences_dict.items(), over the first
\* n bundle ids: the counters and the attempts made.
RECURSIVE PreferencesLoop(_, _, _)
PreferencesLoop(preferences_dict, exits, n) ==
    IF n = 0 THEN [success_count |-> 0, fail_count |-> 0, attempts |-> <<>>]
    ELSE LET before == PreferencesLoop(preferences_dict, exits, n - 1)
             bundle_id == BundleIds[n]
         IN  IF bundle_id \notin DOMAIN preferences_dict THEN before
             ELSE [success_count |-> before.success_count
                                     + (IF exits[bundle_id] = "ok" THEN 1 ELSE 0),
                   fail_count |-> before.fail_count
                                  + (IF exits[bundle_id] = "ok" THEN 0 ELSE 1),
                   attempts |-> Append(before.attempts,
                                       [bundle_id |-> bundle_id,
                                        action |-> ExtensionAction(preferences_dict[bundle_id]),
                                        exit |-> exits[bundle_id]])]

\* The first bundle id of the mapping, the one pluginkit is first run for.
FirstBundle(preferences_dict) ==
    BundleIds[CHOOSE j \in 1..Len(BundleIds) :
                 /\ BundleIds[j] \in DOMAIN preferences_dict
                 /\ \A i \in 1..(j - 1) : BundleIds[i] \notin DOMAIN preferences_dict]

\* SystemExtensionsHandler.set_extension_preferences: [exc, ok, attempts].
\* Without pluginkit the first subprocess.run raises FileNotFoundError.
SetExtensionPreferencesOn(preferences_dict, cmd, exits) ==
    IF DOMAIN preferences_dict = {}
    THEN [exc |-> "", ok |-> TRUE, attempts |-> <<>>]
    ELSE IF cmd = "missing"
    THEN LET bundle_id == FirstBundle(preferences_dict)
         IN  [exc |-> "FileNotFoundError", ok |-> FALSE,
              attempts |-> <<[bundle_id |-> bundle_id,
                              action |-> ExtensionAction(preferences_dict[bundle_id]),
                              exit |-> "missing"]>>]
    ELSE LET run == PreferencesLoop(preferences_dict, exits, Len(BundleIds))
         IN  [exc |-> "",
              ok |-> (run.success_count > 0 \/ run.fail_count = 0),
              attempts |-> run.attempts]

\* The position of a bundle id among those of the mapping.
BundleIndex(preferences_dict, bundle_id) ==
    Cardinality({j \in 1..Len(BundleIds) :
                    /\ BundleIds[j] \in DOMAIN preferences_dict
                    /\ \E i \in j..Len(BundleIds) : BundleIds[i] = bundle_id})

\* SystemExtensionsHandler.set_extension_preferences in a pass.
SetExtensionPreferences(value, outcome, live) ==
    LET preferences_dict == IF IsMap(value) THEN value.m ELSE [id \in {} |-> TRUE]
        n == Cardinality(DOMAIN preferences_dict)
        run == SetExtensionPreferencesOn(
                   preferences_dict,
                   IF outcome = "missing" THEN "missing" ELSE "present",
                   [id \in DOMAIN preferences_dict |->
                       ExitOf(outcome, BundleIndex(preferences_dict, id), n)])
    IN  [exc |-> run.exc, ok |-> run.ok, live |-> live, attempts |-> run.attempts]

\* A set_value that, when it fails, puts every other regular setting back to
\* one fixed state.
SetValueRollingBack(key, value, outcome, live) ==
    LET res == CASE key = "startup_items_blocked" ->
                      SetBlockedItems(value, outcome, live)
                 [] key = "background_app_permissions" ->
                      SetBackgroundPermissions(value, outcome, live)
                 [] key = "system_extension_preferences" ->
                      SetExtensionPreferences(value, outcome, live)
                 [] OTHER -> SetValueRegular(key, value, outcome, live)
    IN  IF res.ok THEN res
        ELSE [res EXCEPT !.live =
                 [x \in DOMAIN live |->
                     IF x = key THEN res.live[x]
                     ELSE CHOOSE v \in SystemValues(x) : v # live[x]]]

\* setting_info['set_value'](configured_value)
SetValue(key, value, outcome, live) ==
    CASE key = "startup_items_blocked" -> SetBlockedItems(value, outcome, live)
      [] key = "background_app_permissions" ->
           SetBackgroundPermissions(value, outcome, live)
      [] key = "system_extension_preferences" ->
           SetExtensionPreferences(value, outcome, live)
      [] OTHER -> SetValueRegular(key, value, outcome, live)

---------------------------------------------------------------------------
\* The registry (MacConfigurator.categories).

Categories == {"Network", "Audio", "Dock", "Startup", "Background Apps",
               "System Extensions"}

NaturalCategory ==
    [key \in Settings |->
        CASE key = "wifi_enabled" -> "Network"
          [] key = "audio_output_volume" -> "Audio"
          [] key = "dock_position" -> "Dock"
          [] key = "startup_items_blocked" -> "Startup"
          [] key = "background_app_permissions" -> "Background Apps"
          [] OTHER -> "System Extensions"]

\* A schema source whose categories are interleaved: the Dock position is
\* filed under Network, after the Audio setting.
InterleavedCategory ==
    [NaturalCategory EXCEPT !["dock_position"] = "Network"]

\* The categories in the order of their first setting in the schema.
RECURSIVE CategoryOrder(_, _)
CategoryOrder(cat, n) ==
    IF n = 0 THEN <<>>
    ELSE LET before == CategoryOrder(cat, n - 1)
             c == cat[SchemaOrder[n]]
         IN  IF \E j \in 1..Len(before) : before[j] = c
             THEN before ELSE Append(before, c)

\* The settings of the first n categories, category by category.
RECURSIVE SettingsOf(_, _, _)
SettingsOf(cat, cats, n) ==
    IF n = 0 THEN <<>>
    ELSE SettingsOf(cat, cats, n - 1)
         \o SelectSeq(SchemaOrder, LAMBDA key : cat[key] = cats[n])

\* A registry that lists the settings as the schema source does.
RegistryFlat == SchemaOrder

\* self.handler_map: the names a schema entry may give as its handler.
HandlerMap ==
    {"WiFiHandler", "AudioInputHandler", "AudioOutputHandler", "DockHandler",
     "FinderHandler", "SystemHandler", "StartupItemsHandler",
     "BackgroundAppsHandler", "SystemExtensionsHandler"}

\* self.handler_methods: the getter and the setter of each setting.
HandlerMethods ==
    [key \in Settings |->
        CASE key = "wifi_enabled" -> <<"get_current_state", "set_state">>
          [] key = "audio_output_volume" -> <<"get_volume", "set_volume">>
          [] key = "dock_position" -> <<"get_position", "set_position">>
          [] key = "startup_items_blocked" ->
               <<"get_blocked_items", "set_blocked_items">>
          [] key = "background_app_permissions" ->
               <<"get_background_permissions", "set_background_permissions">>
          [] OTHER -> <<"get_extension_preferences", "set_extension_preferences">>]

\* The methods the handler classes have, among those of HandlerMethods.
MethodsOf(handler_name) ==
    CASE handler_name = "WiFiHandler" -> {"get_current_state", "set_state"}
      [] handler_name = "AudioOutputHandler" -> {"get_volume", "set_volume"}
      [] handler_name = "DockHandler" -> {"get_position", "set_position"}
      [] handler_name = "StartupItemsHandler" ->
           {"get_blocked_items", "set_blocked_items"}
      [] handler_name = "BackgroundAppsHandler" ->
           {"get_background_permissions", "set_background_permissions"}
      [] handler_name = "SystemExtensionsHandler" ->
           {"get_extension_preferences", "set_extension_preferences"}
      [] OTHER -> {}

\* The handler the schema in the repository names for each setting.
NaturalHandler ==
    [key \in Settings |->
        CASE key = "wifi_enabled" -> "WiFiHandler"
          [] key = "audio_output_volume" -> "AudioOutputHandler"
          [] key = "dock_position" -> "DockHandler"
          [] key = "startup_items_blocked" -> "StartupItemsHandler"
          [] key = "background_app_permissions" -> "BackgroundAppsHandler"
          [] OTHER -> "SystemExtensionsHandler"]

\* One iteration of _build_categories_from_schema for key: "dropped" with the
\* warning when the handler name is not in the map or the setting has no
\* pair of methods; "AttributeError" when getattr does not find the method
\* on the handler the schema names; "bound" otherwise.
Resolve(sch, key) ==
    IF sch.handler[key] \notin HandlerMap \/ key \notin DOMAIN HandlerMethods
    THEN "dropped"
    ELSE IF \E j \in 1..2 : HandlerMethods[key][j] \notin MethodsOf(sch.handler[key])
    THEN "AttributeError"
    ELSE "bound"

\* _build_categories_from_schema: [exc, categories, warned].  The category
\* of a setting is entered before the setting is looked at, so a dropped
\* setting keeps the place of its category.
BuildCategories(sch) ==
    LET cats == CategoryOrder(sch.category, Len(SchemaOrder))
        all == SettingsOf(sch.category, cats, Len(cats))
        bad == {n \in 1..Len(SchemaOrder) :
                   Resolve(sch, SchemaOrder[n]) = "AttributeError"}
        stop == IF bad = {} THEN Len(SchemaOrder) + 1
                ELSE CHOOSE n \in bad : \A m \in bad : n <= m
    IN  [exc |-> IF bad = {} THEN "" ELSE "AttributeError",
         categories |-> IF bad = {}
                        THEN SelectSeq(all, LAMBDA key : Resolve(sch, key) = "bound")
                        ELSE <<>>,
         warned |-> {SchemaOrder[n] : n \in {m \in 1..(stop - 1) :
                        Resolve(sch, SchemaOrder[m]) = "dropped"}}]

\* for category_name, settings in self.categories.items():
\*     for setting_key, setting_info in settings.items():
Registry == categories

---------------------------------------------------------------------------
\* MacConfigurator.apply_settings, one step per loop iteration.

\* if configured_value != current_value: ... requires_admin and not is_admin
Classify(key, configured_value, current_value) ==
    IF PyEq(configured_value, current_value) THEN "InSync"
    ELSE IF schema.requires_admin[key] /\ ~is_admin THEN "BlockedByPrivilege"
    ELSE "NeedsApply"

\* A classification of the list and mapping settings that looks at
\* requires_admin and at the flag, as the one of the regular settings does.
ClassifySpecialGated(configured_value) ==
    IF ~Truthy(configured_value) THEN "InSync"
    ELSE IF schema.requires_admin["startup_items_blocked"] /\ ~is_admin
    THEN "BlockedByPrivilege"
    ELSE "NeedsApply"

\* The list and mapping settings: "Always apply if there are blocked items".
ClassifySpecial(configured_value) ==
    IF Truthy(configured_value) THEN "NeedsApply" ELSE "InSync"

Item(key, value) == [key |-> key, value |-> value]

\* No list or mapping handler has been called on its own.
NoHandlerCall ==
    [op |-> "none", arg |-> None, items |-> {}, exc |-> "", ok |-> TRUE,
     read |-> FALSE, attempts |-> <<>>, after |-> {}]

\* current_value, the local variable of the collecting loop, with the key it
\* was read for and whether the read failed.
NoObservation == [key |-> "", observed |-> FALSE, obs_failed |-> FALSE, current |-> None]
Keys(items) == [j \in 1..Len(items) |-> items[j].key]
Range(seq) == {seq[j] : j \in 1..Len(seq)}

\* An uncaught exception ends the process with a traceback.
Crash(exc) ==
    /\ pc' = "crashed"
    /\ exit_code' = "1"
    /\ raised' = exc

\* A pass whose lists outlive the call: nothing is emptied at its start.
StartPassKeepingLists ==
    /\ pc \in {"menu", "main"}
    /\ pc' = "collect"
    /\ pos' = 1
    /\ k' = 1
    /\ success_count' = 0
    /\ fail_count' = 0
    /\ last' = NoObservation
    /\ invoked' = <<>>
    /\ applied' = <<>>
    /\ failed' = <<>>
    /\ UNCHANGED <<categories, warned, dir, hcall, os_admin, flags, observe, first, schema, is_admin, config,
                   file, sys, mode, raised, exit_code, call, to_apply,
                   skipped_admin, diff>>

\* run_interactive_menu choice '2', or main() with --apply.
StartPass ==
    /\ pc \in {"menu", "main"}
    /\ pc' = "collect"
    /\ pos' = 1
    /\ to_apply' = <<>>
    /\ skipped_admin' = <<>>
    /\ k' = 1
    /\ success_count' = 0
    /\ fail_count' = 0
    /\ diff' = <<>>
    /\ last' = NoObservation
    /\ invoked' = <<>>
    /\ applied' = <<>>
    /\ failed' = <<>>
    /\ UNCHANGED <<categories, warned, dir, hcall, os_admin, flags, observe, first, schema, is_admin, config, file, sys, mode, raised, exit_code, call>>

\* The iteration for key reads self.is_admin: the value is configured, the
\* setting is a regular one, its read returned a value that differs and the
\* setting requires the privilege ('and' does not evaluate its right side
\* otherwise).
ReadsFlag(key, got) ==
    /\ IsConfigured(key, config)
    /\ key \notin SpecialSettings
    /\ got.exc = ""
    /\ ~PyEq(config[key], got.value)
    /\ schema.requires_admin[key]

\* One iteration of the collecting loops, for the setting at pos.
CollectStep(outcome) ==
    /\ pc = "collect"
    /\ pos <= Len(Registry)
    /\ LET key == Registry[pos]
           got == GetCurrent(key, outcome, sys)
       IN  IF ~IsConfigured(key, config)
           THEN \* configured_value is None: continue
                /\ pos' = pos + 1
                /\ UNCHANGED <<pc, sys, to_apply, skipped_admin, diff, last,
                               raised, exit_code>>
           ELSE IF key \in SpecialSettings
           THEN LET cls == ClassifySpecial(config[key])
                IN  /\ pos' = pos + 1
                    /\ to_apply' = IF cls = "NeedsApply"
                                   THEN Append(to_apply, Item(key, config[key]))
                                   ELSE to_apply
                    /\ diff' = Append(diff, [key |-> key, cls |-> cls])
                    /\ last' = [key |-> key, observed |-> FALSE,
                                obs_failed |-> FALSE, current |-> None]
                    /\ UNCHANGED <<pc, sys, skipped_admin, raised, exit_code>>
           ELSE IF got.exc # ""
           THEN /\ Crash(got.exc)
                /\ sys' = got.live
                /\ UNCHANGED <<pos, to_apply, skipped_admin, diff, last>>
           ELSE LET cls == Classify(key, config[key], got.value)
                IN  /\ pos' = pos + 1
                    /\ sys' = got.live
                    /\ to_apply' = IF cls = "NeedsApply"
                                   THEN Append(to_apply, Item(key, config[key]))
                                   ELSE to_apply
                    /\ skipped_admin' = IF cls = "BlockedByPrivilege"
                                        THEN Append(skipped_admin, Item(key, config[key]))
                                        ELSE skipped_admin
                    /\ diff' = Append(diff, [key |-> key, cls |-> cls])
                    /\ last' = [key |-> key, observed |-> TRUE,
                                obs_failed |-> (outcome # "ok"),
                                current |-> got.value]
                    /\ UNCHANGED <<pc, raised, exit_code>>
    /\ flags' = IF ReadsFlag(Registry[pos], GetCurrent(Registry[pos], outcome, sys))
                THEN flags \cup {is_admin} ELSE flags
    /\ UNCHANGED <<categories, warned, dir, hcall, os_admin, observe, first, schema, is_admin, config, file,
                   mode, k, success_count, fail_count, invoked, applied, failed,
                   call>>

\* After the loops: the panels, and either the apply loop or the last prompt.
ShowPlan ==
    /\ pc = "collect"
    /\ pos > Len(Registry)
    /\ pc' = IF to_apply = <<>> THEN "pause" ELSE "apply"
    /\ last' = NoObservation   \* current_value is not read after the loops
    /\ UNCHANGED <<categories, warned, dir, hcall, os_admin, flags, observe, first, schema, is_admin, config, file, sys, mode, pos, to_apply,
                   skipped_admin, k, success_count, fail_count, diff, invoked,
                   applied, failed, raised, exit_code, call>>

\* A loop that stops at the first failure.
AdvanceOrBreak(j, ok) == IF ok THEN j + 1 ELSE Len(to_apply) + 1

\* The for loop over to_apply goes to the next item whatever set_value returned.
Advance(j, ok) == j + 1

\* One iteration of: for setting_key, setting_info, configured_value in to_apply
ApplyStep(outcome) ==
    /\ pc = "apply"
    /\ k <= Len(to_apply)
    /\ LET item == to_apply[k]
           res == SetValue(item.key, item.value, outcome, sys)
       IN  /\ invoked' = Append(invoked, item.key)
           /\ sys' = res.live
           /\ IF res.exc # ""
              THEN /\ Crash(res.exc)
                   /\ UNCHANGED <<k, success_count, fail_count, applied, failed>>
              ELSE /\ k' = Advance(k, res.ok)
                   /\ IF res.ok
                      THEN /\ success_count' = success_count + 1
                           /\ applied' = Append(applied, item.key)
                           /\ UNCHANGED <<fail_count, failed>>
                      ELSE /\ fail_count' = fail_count + 1
                           /\ failed' = Append(failed, item.key)
                           /\ UNCHANGED <<success_count, applied>>
                   /\ UNCHANGED <<pc, raised, exit_code>>
    /\ UNCHANGED <<categories, warned, dir, hcall, os_admin, flags, observe, first, schema, is_admin, config, file, mode, pos, to_apply,
                   skipped_admin, diff, last, call>>

\* The summary panel with the two counters.
Summary ==
    /\ pc = "apply"
    /\ k > Len(to_apply)
    /\ pc' = "pause"
    /\ UNCHANGED <<categories, warned, dir, hcall, os_admin, flags, observe, first, schema, is_admin, config, file, sys, mode, pos, to_apply,
                   skipped_admin, k, success_count, fail_count, diff, last,
                   invoked, applied, failed, raised, exit_code, call>>

\* self.console.input("Press Enter to continue..."), then the return: to the
\* menu, or from main() when the pass was started by --apply.  With the
\* standard input at its end, input() raises EOFError.
Continue(stdin) ==
    /\ pc = "pause"
    /\ IF stdin = "eof"
       THEN /\ Crash("EOFError")
            /\ UNCHANGED passVars
       ELSE /\ raised' = raised
            /\ IF mode = "apply"
               THEN /\ pc' = "exited"
                    /\ exit_code' = "0"
                    /\ UNCHANGED passVars
               ELSE /\ pc' = "menu"
                    /\ exit_code' = exit_code
                    /\ pos' = 1
                    /\ to_apply' = <<>>
                    /\ skipped_admin' = <<>>
                    /\ k' = 1
                    /\ success_count' = 0
                    /\ fail_count' = 0
                    /\ diff' = <<>>
                    /\ last' = NoObservation
                    /\ invoked' = <<>>
                    /\ applied' = <<>>
                    /\ failed' = <<>>
    /\ UNCHANGED <<categories, warned, dir, hcall, os_admin, flags, observe, first, schema, is_admin, config, file, sys, mode, call>>

\* run_interactive_menu choice 'e', and the selector left at once.
Quit ==
    /\ pc = "menu"
    /\ pc' = "exited"
    /\ exit_code' = "0"
    /\ UNCHANGED <<categories, warned, dir, hcall, os_admin, flags, observe, first, schema, is_admin, config, file, sys, mode, passVars, raised, call>>

---------------------------------------------------------------------------
\* The schema sources and the initial states.

\* Every read ends well.
AllOk == [key \in Settings |-> "ok"]
\* No pass has been kept for comparison.
NoDiff == [done |-> FALSE, diff |-> <<>>, to_apply |-> <<>>, skipped_admin |-> <<>>]

NoCall == [op |-> "none", key |-> "", value |-> None, result |-> "", msg |-> ""]

\* The schema file is read, not written, by the program.  The settings written
\* with osascript and defaults need no privilege in any schema source; the
\* Wi-Fi power and the startup items may or may not.
UserLevel == {"audio_output_volume", "dock_position"}
SchemaSources ==
    [requires_admin : {r \in [Settings -> BOOLEAN] :
                          /\ \A key \in UserLevel : ~r[key]
                          /\ \A key \in MappingSettings :
                                 r[key] = r["startup_items_blocked"]},
     category : {NaturalCategory, InterleavedCategory},
     handler : {NaturalHandler},
     additional : BOOLEAN]

\* With this schema the Wi-Fi power needs the privilege and nothing else does.
DiffSchema ==
    [requires_admin |-> [key \in Settings |-> key = "wifi_enabled"],
     category |-> NaturalCategory,
     handler |-> NaturalHandler,
     additional |-> TRUE]

\* The live value of a setting the profile does not hold is never read by a
\* pass, so one value stands for it.
LiveStates(c) ==
    {live \in [RegularSettings -> UNION {SystemValues(key) : key \in RegularSettings}] :
        \A key \in RegularSettings :
            /\ live[key] \in SystemValues(key)
            /\ key \notin DOMAIN c => live[key] = CHOOSE v \in SystemValues(key) : TRUE}

\* The schema sources of the passes: with the interleaved categories, no
\* setting needs the privilege.
PassSchemas ==
    {s \in SchemaSources :
        /\ s.additional
        /\ s.category = InterleavedCategory =>
               \A key \in Settings : ~s.requires_admin[key]}

\* The profiles of the passes: every profile over the regular settings and
\* the blocked startup items, and some that also hold an id the schema does
\* not have.
UnknownKey == "unknown_setting"
BasicSettings == RegularSettings \cup {"startup_items_blocked"}
Profiles ==
    DictsOver(BasicSettings) \cup
    {DictSet(d, UnknownKey, PyBool(TRUE)) :
        d \in DictsOver({"wifi_enabled", "dock_position"})}

\* Profiles that hold lists and mappings, empty or not, beside the Wi-Fi
\* power, and some with the empty string for the Dock position.
ListProfiles ==
    DictsOver({"wifi_enabled"} \cup SpecialSettings) \cup
    {DictSet(d, "dock_position", PyStr("")) : d \in DictsOver({"wifi_enabled"})}

Init ==
    /\ schema \in PassSchemas
    /\ is_admin \in BOOLEAN
    /\ config \in Profiles
    /\ file = OnDisk(config)
    /\ sys \in LiveStates(config)
    /\ mode \in {"apply", "interactive"}
    /\ pc = IF mode = "apply" THEN "main" ELSE "menu"
    /\ pos = 1
    /\ to_apply = <<>>
    /\ skipped_admin = <<>>
    /\ k = 1
    /\ success_count = 0
    /\ fail_count = 0
    /\ diff = <<>>
    /\ last = NoObservation
    /\ invoked = <<>>
    /\ applied = <<>>
    /\ failed = <<>>
    /\ raised = ""
    /\ exit_code = "running"
    /\ call = NoCall
    /\ os_admin = is_admin
    /\ flags = {}
    /\ observe = AllOk
    /\ first = NoDiff
    /\ warned = LoadDiagnostics(config) \cup BuildCategories(schema).warned
    /\ dir = {}
    /\ hcall = NoHandlerCall
    /\ categories = BuildCategories(schema).categories

Next ==
    \/ StartPass
    \/ \E outcome \in ObserveOutcomes : CollectStep(outcome)
    \/ ShowPlan
    \/ \E outcome \in ApplyOutcomes : ApplyStep(outcome)
    \/ Summary
    \/ \E stdin \in {"enter", "eof"} : Continue(stdin)
    \/ Quit

Spec == Init /\ [][Next]_vars

\* The same process from fewer profiles, going on while it can: the loops
\* are plain for loops, every call is a blocking subprocess.run that ends,
\* and the prompts are answered or the standard input is at its end.
InitLive ==
    /\ schema = DiffSchema
    /\ is_admin \in BOOLEAN
    /\ config \in DictsOver({"wifi_enabled", "dock_position"})
    /\ file = OnDisk(config)
    /\ sys = CHOOSE live \in LiveStates(EmptyDict) : TRUE
    /\ mode \in {"apply", "interactive"}
    /\ pc = IF mode = "apply" THEN "main" ELSE "menu"
    /\ pos = 1
    /\ to_apply = <<>>
    /\ skipped_admin = <<>>
    /\ k = 1
    /\ success_count = 0
    /\ fail_count = 0
    /\ diff = <<>>
    /\ last = NoObservation
    /\ invoked = <<>>
    /\ applied = <<>>
    /\ failed = <<>>
    /\ raised = ""
    /\ exit_code = "running"
    /\ call = NoCall
    /\ os_admin = is_admin
    /\ flags = {}
    /\ observe = AllOk
    /\ first = NoDiff
    /\ warned = LoadDiagnostics(config) \cup BuildCategories(schema).warned
    /\ dir = {}
    /\ hcall = NoHandlerCall
    /\ categories = BuildCategories(schema).categories

SpecLive == InitLive /\ [][Next]_vars /\ WF_vars(Next)

\* The same process over the profiles with lists and mappings.
InitLists ==
    /\ schema \in PassSchemas
    /\ is_admin \in BOOLEAN
    /\ config \in ListProfiles
    /\ file = OnDisk(config)
    /\ sys \in LiveStates(config)
    /\ mode \in {"apply", "interactive"}
    /\ pc = IF mode = "apply" THEN "main" ELSE "menu"
    /\ pos = 1
    /\ to_apply = <<>>
    /\ skipped_admin = <<>>
    /\ k = 1
    /\ success_count = 0
    /\ fail_count = 0
    /\ diff = <<>>
    /\ last = NoObservation
    /\ invoked = <<>>
    /\ applied = <<>>
    /\ failed = <<>>
    /\ raised = ""
    /\ exit_code = "running"
    /\ call = NoCall
    /\ os_admin = is_admin
    /\ flags = {}
    /\ observe = AllOk
    /\ first = NoDiff
    /\ warned = LoadDiagnostics(config) \cup BuildCategories(schema).warned
    /\ dir = {}
    /\ hcall = NoHandlerCall
    /\ categories = BuildCategories(schema).categories

SpecLists == InitLists /\ [][Next]_vars

---------------------------------------------------------------------------
\* The list and mapping handlers called on their own, with every argument,
\* on every set of login items, every command ending in every way.

LoginNames == {ItemNames[1], ItemNames[2]}
BlockedLists == UNION {[1..n -> LoginNames] : n \in 0..(MaxBlocked + 1)}
PreferenceDicts == UNION {[D -> BOOLEAN] : D \in SUBSET Range(BundleIds)}

\* The calls to make: the argument and, for the startup items, the login
\* items of the system.
PendingCalls ==
    {[NoHandlerCall EXCEPT !.op = "pending", !.arg = PyList(blocked_list),
                           !.items = items] :
        blocked_list \in BlockedLists, items \in SUBSET LoginNames}
    \cup {[NoHandlerCall EXCEPT !.op = "pending", !.arg = PyMap(preferences_dict)] :
             preferences_dict \in PreferenceDicts}

\* StartupItemsHandler.set_blocked_items(blocked_list)
SetBlockedItemsCall(read, exits) ==
    /\ pc = "handler"
    /\ hcall.op = "pending"
    /\ IsList(hcall.arg)
    /\ LET res == SetBlockedItemsOn(hcall.arg.l, hcall.items, read, exits)
       IN  /\ hcall' = [hcall EXCEPT !.op = "set_blocked_items",
                                      !.exc = res.exc, !.ok = res.ok,
                                      !.read = res.read,
                                      !.attempts = res.attempts,
                                      !.after = res.items]
           /\ IF res.exc # "" THEN Crash(res.exc)
              ELSE pc' = "returned" /\ UNCHANGED <<raised, exit_code>>
    /\ UNCHANGED <<categories, warned, dir, os_admin, flags, observe, first,
                   schema, is_admin, config, file, sys, mode, passVars, call>>

\* SystemExtensionsHandler.set_extension_preferences(preferences_dict)
SetExtensionPreferencesCall(cmd, exits) ==
    /\ pc = "handler"
    /\ hcall.op = "pending"
    /\ IsMap(hcall.arg)
    /\ LET res == SetExtensionPreferencesOn(hcall.arg.m, cmd, exits)
       IN  /\ hcall' = [hcall EXCEPT !.op = "set_extension_preferences",
                                      !.exc = res.exc, !.ok = res.ok,
                                      !.attempts = res.attempts]
           /\ IF res.exc # "" THEN Crash(res.exc)
              ELSE pc' = "returned" /\ UNCHANGED <<raised, exit_code>>
    /\ UNCHANGED <<categories, warned, dir, os_admin, flags, observe, first,
                   schema, is_admin, config, file, sys, mode, passVars, call>>

InitHandlers ==
    /\ schema = DiffSchema
    /\ is_admin = FALSE
    /\ config = EmptyDict
    /\ file = NoFile
    /\ sys = CHOOSE live \in LiveStates(EmptyDict) : TRUE
    /\ mode = "interactive"
    /\ pc = "handler"
    /\ pos = 1
    /\ to_apply = <<>>
    /\ skipped_admin = <<>>
    /\ k = 1
    /\ success_count = 0
    /\ fail_count = 0
    /\ diff = <<>>
    /\ last = NoObservation
    /\ invoked = <<>>
    /\ applied = <<>>
    /\ failed = <<>>
    /\ raised = ""
    /\ exit_code = "running"
    /\ call = NoCall
    /\ os_admin = is_admin
    /\ flags = {}
    /\ observe = AllOk
    /\ first = NoDiff
    /\ warned = {}
    /\ dir = {}
    /\ hcall \in PendingCalls
    /\ categories = BuildCategories(schema).categories

NextHandlers ==
    \/ /\ IsList(hcall.arg)
       /\ \E read \in ObserveOutcomes :
             \E exits \in [1..Len(hcall.arg.l) -> Exits] :
                SetBlockedItemsCall(read, exits)
    \/ /\ IsMap(hcall.arg)
       /\ \E cmd \in {"present", "missing"} :
             \E exits \in [DOMAIN hcall.arg.m -> Exits] :
                SetExtensionPreferencesCall(cmd, exits)

SpecHandlers == InitHandlers /\ [][NextHandlers]_vars

---------------------------------------------------------------------------
\* The profile store alone: every call of its interface, from every profile
\* file, with every key and value.

StoreKeys == {"audio_output_volume", "dock_position", UnknownKey}
StoreValues == {PyInt(0), PyInt(150), PyStr("left"), PyStr("top"), PyBool(TRUE)}

\* The files a profile may be loaded from: any value for any key.
StoreFiles ==
    {NoFile} \cup
    {OnDisk(d) : d \in UNION {[D -> {PyInt(0), PyInt(150), PyStr("left")}]
                              : D \in SUBSET StoreKeys}}

\* config_manager.set_setting(key, value)
SetSettingCall(key, value, w) ==
    LET res == SetSetting(key, value, config, file, w)
    IN  /\ pc = "menu"
        /\ config' = res.config
        /\ file' = res.file
        /\ call' = [op |-> "set_setting", key |-> key, value |-> value,
                    result |-> IF res.exc = "" THEN "ok" ELSE res.exc,
                    msg |-> res.msg]
        /\ UNCHANGED <<categories, warned, dir, hcall, os_admin, flags, observe, first, schema, is_admin, sys, mode, pc, passVars, raised, exit_code>>

\* config_manager.delete_setting(key)
DeleteSettingCall(key, w) ==
    LET res == DeleteSetting(key, config, file, w)
    IN  /\ pc = "menu"
        /\ config' = res.config
        /\ file' = res.file
        /\ call' = [op |-> "delete_setting", key |-> key, value |-> None,
                    result |-> IF res.exc # "" THEN res.exc
                               ELSE IF res.ret THEN "True" ELSE "False",
                    msg |-> ""]
        /\ UNCHANGED <<categories, warned, dir, hcall, os_admin, flags, observe, first, schema, is_admin, sys, mode, pc, passVars, raised, exit_code>>

\* ConfigManager(config_path): the profile is opened again.  A file that is
\* not a JSON document ends the process: nothing catches JSONDecodeError.
OpenConfig ==
    LET res == LoadConfig(file)
    IN  /\ pc = "menu"
        /\ call' = [op |-> "load_config", key |-> "", value |-> None,
                    result |-> IF res.exc = "" THEN "ok" ELSE res.exc, msg |-> ""]
        /\ IF res.exc = ""
           THEN /\ config' = res.config
                /\ warned' = LoadDiagnostics(res.config)
                /\ UNCHANGED <<pc, raised, exit_code>>
           ELSE /\ Crash(res.exc)
                /\ UNCHANGED <<config, warned>>
        /\ UNCHANGED <<categories, dir, hcall, os_admin, flags, observe, first, schema, is_admin, file, sys, mode, passVars>>

InitStore ==
    /\ schema \in {s \in SchemaSources :
                     /\ s.category = NaturalCategory
                     /\ \A key \in Settings : ~s.requires_admin[key]}
    /\ is_admin = FALSE
    /\ file \in StoreFiles
    /\ config = LoadConfig(file).config
    /\ sys = CHOOSE live \in LiveStates(EmptyDict) : TRUE
    /\ mode = "interactive"
    /\ pc = "menu"
    /\ pos = 1
    /\ to_apply = <<>>
    /\ skipped_admin = <<>>
    /\ k = 1
    /\ success_count = 0
    /\ fail_count = 0
    /\ diff = <<>>
    /\ last = NoObservation
    /\ invoked = <<>>
    /\ applied = <<>>
    /\ failed = <<>>
    /\ raised = ""
    /\ exit_code = "running"
    /\ call = NoCall
    /\ os_admin = is_admin
    /\ flags = {}
    /\ observe = AllOk
    /\ first = NoDiff
    /\ warned = LoadDiagnostics(config) \cup BuildCategories(schema).warned
    /\ dir = {}
    /\ hcall = NoHandlerCall
    /\ categories = BuildCategories(schema).categories

NextStore ==
    \/ \E key \in StoreKeys, value \in StoreValues, w \in WriteOutcomes :
           SetSettingCall(key, value, w)
    \/ \E key \in StoreKeys, w \in WriteOutcomes : DeleteSettingCall(key, w)
    \/ OpenConfig

SpecStore == InitStore /\ [][NextStore]_vars

\* The profile store over profiles with values of every JSON type: a profile
\* as loaded from its file, then changed and saved, and opened again.
SavedValues ==
    {<<"wifi_enabled", PyBool(TRUE)>>, <<"wifi_enabled", PyBool(FALSE)>>,
     <<"audio_output_volume", PyInt(0)>>,
     <<"startup_items_blocked", Blocked(MaxBlocked)>>,
     <<"system_extension_preferences",
       PyMap([id \in Range(BundleIds) |-> id = BundleIds[1]])>>}

InitSaved ==
    /\ schema = DiffSchema
    /\ is_admin = FALSE
    /\ config \in DictsOver(Settings \ {"background_app_permissions"})
    /\ file = OnDisk(config)
    /\ sys = CHOOSE live \in LiveStates(EmptyDict) : TRUE
    /\ mode = "interactive"
    /\ pc = "menu"
    /\ pos = 1
    /\ to_apply = <<>>
    /\ skipped_admin = <<>>
    /\ k = 1
    /\ success_count = 0
    /\ fail_count = 0
    /\ diff = <<>>
    /\ last = NoObservation
    /\ invoked = <<>>
    /\ applied = <<>>
    /\ failed = <<>>
    /\ raised = ""
    /\ exit_code = "running"
    /\ call = NoCall
    /\ os_admin = is_admin
    /\ flags = {}
    /\ observe = AllOk
    /\ first = NoDiff
    /\ warned = LoadDiagnostics(config) \cup BuildCategories(schema).warned
    /\ dir = {}
    /\ hcall = NoHandlerCall
    /\ categories = BuildCategories(schema).categories

NextSaved ==
    \/ \E pair \in SavedValues, w \in WriteOutcomes :
           SetSettingCall(pair[1], pair[2], w)
    \/ \E key \in {"wifi_enabled", "dock_position"}, w \in WriteOutcomes :
           DeleteSettingCall(key, w)
    \/ OpenConfig

SpecSaved == InitSaved /\ [][NextSaved]_vars

---------------------------------------------------------------------------
\* The pass run twice over the same profile, the same system and the same
\* outcome of every read: menu choice '2', twice.  The providers' writes fail,
\* so the first pass leaves the system as it found it.

\* One outcome for the read of every setting the profile holds.
ObserveSources(c) ==
    {o \in [Settings -> ObserveOutcomes] :
        \A key \in Settings :
            (key \notin DOMAIN c \/ key \in SpecialSettings) => o[key] = "ok"}

\* An iteration of the collecting loops, the read ending as observe says.
ObservedStep ==
    /\ pc = "collect"
    /\ pos <= Len(Registry)
    /\ CollectStep(observe[Registry[pos]])

\* An iteration of the apply loop whose command exits non-zero.
ApplyFails == ApplyStep("nonzero")

\* Enter at the last prompt of the first pass, back in the menu: what the
\* pass collected is kept for comparison.
NextPass ==
    /\ pc = "pause"
    /\ ~first.done
    /\ pc' = "menu"
    /\ first' = [done |-> TRUE, diff |-> diff, to_apply |-> to_apply,
                 skipped_admin |-> skipped_admin]
    /\ UNCHANGED <<categories, warned, dir, hcall, os_admin, flags, observe, schema, is_admin, config, file,
                   sys, mode, passVars, raised, exit_code, call>>

InitDiff ==
    /\ schema = DiffSchema
    /\ is_admin \in BOOLEAN
    /\ config \in DictsOver(BasicSettings)
    /\ file = OnDisk(config)
    /\ sys \in LiveStates(config)
    /\ observe \in ObserveSources(config)
    /\ mode = "interactive"
    /\ pc = "menu"
    /\ pos = 1
    /\ to_apply = <<>>
    /\ skipped_admin = <<>>
    /\ k = 1
    /\ success_count = 0
    /\ fail_count = 0
    /\ diff = <<>>
    /\ last = NoObservation
    /\ invoked = <<>>
    /\ applied = <<>>
    /\ failed = <<>>
    /\ raised = ""
    /\ exit_code = "running"
    /\ call = NoCall
    /\ os_admin = is_admin
    /\ flags = {}
    /\ first = NoDiff
    /\ warned = LoadDiagnostics(config) \cup BuildCategories(schema).warned
    /\ dir = {}
    /\ hcall = NoHandlerCall
    /\ categories = BuildCategories(schema).categories

NextDiffSpec ==
    \/ StartPass
    \/ ObservedStep
    \/ ShowPlan
    \/ ApplyFails
    \/ Summary
    \/ NextPass

SpecDiff == InitDiff /\ [][NextDiffSpec]_vars

---------------------------------------------------------------------------
\* The interactive process (ConfigSelector.run): profiles are opened one after
\* another, each in a MacConfigurator of its own, while the user's groups may
\* be changed from outside.

\* The profile files of the config directory.
SelectorFiles ==
    {OnDisk(d) : d \in DictsOver({"wifi_enabled", "dock_position"}) \ {EmptyDict}}

\* _edit_config: MacConfigurator(config_name, path_manager) loads the
\* profile, calls is_admin() and builds the categories; then its menu runs.
\* Nothing catches an exception of the constructor.
EditConfig(f) ==
    /\ pc = "selector"
    /\ file' = f
    /\ config' = LoadConfig(f).config
    /\ warned' = LoadDiagnostics(LoadConfig(f).config)
                  \cup BuildCategories(schema).warned
    /\ is_admin' = os_admin
    /\ categories' = BuildCategories(schema).categories
    /\ IF BuildCategories(schema).exc # ""
       THEN Crash(BuildCategories(schema).exc)
       ELSE pc' = "menu" /\ UNCHANGED <<raised, exit_code>>
    /\ UNCHANGED <<dir, hcall, os_admin, flags, observe, first, schema, sys, mode,
                   passVars, call>>

\* run_interactive_menu choice 'e': back in the loop of ConfigSelector.run.
MenuExit ==
    /\ pc = "menu"
    /\ pc' = "selector"
    /\ UNCHANGED <<categories, warned, dir, hcall, os_admin, flags, observe, first, schema, is_admin, config,
                   file, sys, mode, passVars, raised, exit_code, call>>

\* ConfigSelector.run choice 'e'.
SelectorExit ==
    /\ pc = "selector"
    /\ pc' = "exited"
    /\ exit_code' = "0"
    /\ UNCHANGED <<categories, warned, dir, hcall, os_admin, flags, observe, first, schema, is_admin, config,
                   file, sys, mode, passVars, raised, call>>

\* The user is added to or removed from the admin group while the process
\* runs: os.getgroups() gives the group access list of the moment.
GroupsChange ==
    /\ pc \notin {"exited", "crashed"}
    /\ os_admin' = ~os_admin
    /\ UNCHANGED <<categories, warned, dir, hcall, flags, observe, first, schema, is_admin, config, file, sys,
                   mode, pc, passVars, raised, exit_code, call>>

InitSelector ==
    /\ schema = DiffSchema
    /\ os_admin \in BOOLEAN
    /\ is_admin = os_admin
    /\ config = EmptyDict
    /\ file = NoFile
    /\ sys \in LiveStates([key \in {"wifi_enabled", "dock_position"} |-> None])
    /\ observe = AllOk
    /\ mode = "interactive"
    /\ pc = "selector"
    /\ pos = 1
    /\ to_apply = <<>>
    /\ skipped_admin = <<>>
    /\ k = 1
    /\ success_count = 0
    /\ fail_count = 0
    /\ diff = <<>>
    /\ last = NoObservation
    /\ invoked = <<>>
    /\ applied = <<>>
    /\ failed = <<>>
    /\ raised = ""
    /\ exit_code = "running"
    /\ call = NoCall
    /\ flags = {}
    /\ first = NoDiff
    /\ warned = LoadDiagnostics(config) \cup BuildCategories(schema).warned
    /\ dir = {}
    /\ hcall = NoHandlerCall
    /\ categories = BuildCategories(schema).categories

NextSelector ==
    \/ \E f \in SelectorFiles : EditConfig(f)
    \/ StartPass
    \/ \E outcome \in {"ok", "nonzero"} : CollectStep(outcome)
    \/ ShowPlan
    \/ \E outcome \in {"ok", "nonzero"} : ApplyStep(outcome)
    \/ Summary
    \/ Continue("enter")
    \/ MenuExit
    \/ SelectorExit
    \/ GroupsChange

SpecSelector == InitSelector /\ [][NextSelector]_vars

---------------------------------------------------------------------------
\* The construction of the registry from schema sources whose entries name
\* the handler of the setting, a handler of another setting, a handler that
\* does not exist, or no handler.

HandlerChoices(key) ==
    {NaturalHandler[key], "NoSuchHandler", "",
     IF key = "dock_position" THEN "WiFiHandler" ELSE "DockHandler"}

BuildSchemas ==
    {[DiffSchema EXCEPT !.handler = h] :
        h \in {g \in [Settings -> HandlerMap \cup {"NoSuchHandler", ""}] :
                  /\ g["wifi_enabled"] \in HandlerChoices("wifi_enabled")
                  /\ g["dock_position"] \in HandlerChoices("dock_position")
                  /\ \A key \in Settings \ {"wifi_enabled", "dock_position"} :
                         g[key] = NaturalHandler[key]}}

InitBuild ==
    /\ schema \in BuildSchemas
    /\ os_admin = TRUE
    /\ is_admin = os_admin
    /\ config = EmptyDict
    /\ file = NoFile
    /\ sys = CHOOSE live \in LiveStates(EmptyDict) : TRUE
    /\ observe = AllOk
    /\ mode = "interactive"
    /\ pc = "selector"
    /\ pos = 1
    /\ to_apply = <<>>
    /\ skipped_admin = <<>>
    /\ k = 1
    /\ success_count = 0
    /\ fail_count = 0
    /\ diff = <<>>
    /\ last = NoObservation
    /\ invoked = <<>>
    /\ applied = <<>>
    /\ failed = <<>>
    /\ raised = ""
    /\ exit_code = "running"
    /\ call = NoCall
    /\ flags = {}
    /\ first = NoDiff
    /\ warned = {}
    /\ dir = {}
    /\ hcall = NoHandlerCall
    /\ categories = <<>>

NextBuild ==
    \/ \E f \in SelectorFiles : EditConfig(f)
    \/ StartPass
    \/ CollectStep("ok")
    \/ ShowPlan
    \/ ApplyStep("ok")
    \/ Summary
    \/ Continue("enter")
    \/ MenuExit
    \/ SelectorExit

SpecBuild == InitBuild /\ [][NextBuild]_vars

---------------------------------------------------------------------------
\* Profile names and profile files (UserConfigPathManager, ConfigSelector).
\* A name is a string, modelled as the sequence of its pieces: a letter, a
\* space, a slash, or the seven characters "_config".

NamePieces == {"a", " ", "/", "_config"}
Names == UNION {[1..n -> NamePieces] : n \in 0..MaxName}

\* The place of the first character of a piece in the character set.
PieceRank(piece) ==
    CASE piece = " " -> 32
      [] piece = "/" -> 47
      [] piece = "_config" -> 95
      [] OTHER -> 97

\* Python's < on two strings.
RECURSIVE NameLess(_, _)
NameLess(n1, n2) ==
    IF n1 = <<>> THEN n2 # <<>>
    ELSE IF n2 = <<>> THEN FALSE
    ELSE IF Head(n1) = Head(n2) THEN NameLess(Tail(n1), Tail(n2))
    ELSE PieceRank(Head(n1)) < PieceRank(Head(n2))

\* validate_config_name: letters, digits, spaces, hyphens and underscores
\* only, at least one character, not blank.
ValidateConfigName(config_name) ==
    /\ config_name # <<>>
    /\ "/" \notin Range(config_name)
    /\ \E j \in 1..Len(config_name) : config_name[j] # " "

\* get_config_path: the stem of f"{config_name}_config.json".
GetConfigPath(config_name) == Append(config_name, "_config")

\* config_file.stem.replace('_config', ''): every "_config" is taken out.
ListedName(stem) == SelectSeq(stem, LAMBDA piece : piece # "_config")

\* list_config_files: the files that match *_config.json, each with its
\* name, sorted by name (the order of equal names is that of the glob).
ListConfigFiles(d) ==
    LET entries == {[name |-> ListedName(f), path |-> f] : f \in d}
    IN  CHOOSE configs \in [1..Cardinality(d) -> entries] :
            /\ \A e \in entries : \E j \in 1..Cardinality(d) : configs[j] = e
            /\ \A i, j \in 1..Cardinality(d) :
                   i < j => ~NameLess(configs[j].name, configs[i].name)

\* config_exists
ConfigExists(config_name, d) == GetConfigPath(config_name) \in d

\* _create_config: one answer to "Enter configuration name".
CreateConfig(config_name) ==
    /\ pc = "selector"
    /\ Cardinality(dir) < MaxConfigs
    /\ IF ~ValidateConfigName(config_name)
       THEN /\ call' = [op |-> "create_config", key |-> config_name,
                        value |-> GetConfigPath(config_name),
                        result |-> "invalid", msg |-> ""]
            /\ UNCHANGED dir
       ELSE IF ConfigExists(config_name, dir)
       THEN /\ call' = [op |-> "create_config", key |-> config_name,
                        value |-> GetConfigPath(config_name),
                        result |-> "exists", msg |-> ""]
            /\ UNCHANGED dir
       ELSE /\ dir' = dir \cup {GetConfigPath(config_name)}
            /\ call' = [op |-> "create_config", key |-> config_name,
                        value |-> GetConfigPath(config_name),
                        result |-> "created", msg |-> ""]
    /\ UNCHANGED <<categories, warned, hcall, os_admin, flags, observe, first,
                   schema, is_admin, config, file, sys, mode, pc, passVars,
                   raised, exit_code>>

\* _delete_config: the j-th listed profile is chosen and confirmed;
\* delete_config unlinks the file of its listed name, if there is one.
DeleteConfig(j) ==
    /\ pc = "selector"
    /\ j \in 1..Cardinality(dir)
    /\ LET listed == ListConfigFiles(dir)[j]
           config_path == GetConfigPath(listed.name)
       IN  /\ dir' = dir \ {config_path}
           /\ call' = [op |-> "delete_config", key |-> listed.name,
                       value |-> listed.path,
                       result |-> IF config_path \in dir THEN "True" ELSE "False",
                       msg |-> ""]
    /\ UNCHANGED <<categories, warned, hcall, os_admin, flags, observe, first,
                   schema, is_admin, config, file, sys, mode, pc, passVars,
                   raised, exit_code>>

\* _edit_config: the j-th listed profile is opened by its listed name, and
\* the menu is left again; a setting saved meanwhile writes the file of the
\* listed name.
OpenListed(j, saves) ==
    /\ pc = "selector"
    /\ j \in 1..Cardinality(dir)
    /\ LET listed == ListConfigFiles(dir)[j]
           config_path == GetConfigPath(listed.name)
       IN  /\ dir' = IF saves THEN dir \cup {config_path} ELSE dir
           /\ Cardinality(dir') <= MaxConfigs
           /\ call' = [op |-> "edit_config", key |-> listed.name,
                       value |-> listed.path,
                       result |-> IF config_path \in dir THEN "loaded" ELSE "empty",
                       msg |-> ""]
    /\ UNCHANGED <<categories, warned, hcall, os_admin, flags, observe, first,
                   schema, is_admin, config, file, sys, mode, pc, passVars,
                   raised, exit_code>>

InitNames ==
    /\ schema = DiffSchema
    /\ os_admin = FALSE
    /\ is_admin = os_admin
    /\ config = EmptyDict
    /\ file = NoFile
    /\ sys = CHOOSE live \in LiveStates(EmptyDict) : TRUE
    /\ observe = AllOk
    /\ mode = "interactive"
    /\ pc = "selector"
    /\ pos = 1
    /\ to_apply = <<>>
    /\ skipped_admin = <<>>
    /\ k = 1
    /\ success_count = 0
    /\ fail_count = 0
    /\ diff = <<>>
    /\ last = NoObservation
    /\ invoked = <<>>
    /\ applied = <<>>
    /\ failed = <<>>
    /\ raised = ""
    /\ exit_code = "running"
    /\ call = NoCall
    /\ flags = {}
    /\ first = NoDiff
    /\ warned = {}
    /\ dir = {}
    /\ hcall = NoHandlerCall
    /\ categories = <<>>

NextNames ==
    \/ \E config_name \in Names : CreateConfig(config_name)
    \/ \E j \in 1..MaxConfigs : DeleteConfig(j)
    \/ \E j \in 1..MaxConfigs, saves \in BOOLEAN : OpenListed(j, saves)

SpecNames == InitNames /\ [][NextNames]_vars

---------------------------------------------------------------------------
\* Properties of the reconciliation pass (checked under Spec).

\* The pass is over: the report is on the screen, or the process has ended.
PassOver == pc \in {"pause", "exited", "crashed"}

\* The classification the design gives: InSync, else BlockedByPrivilege, else
\* NeedsApply.
ThreeWay(desired, observed, requires_privilege, flag) ==
    IF desired = observed THEN "InSync"
    ELSE IF requires_privilege /\ ~flag THEN "BlockedByPrivilege"
    ELSE "NeedsApply"

\* The value the bound provider's observe gave, or would give, for the item
\* collected last.
ObservedLast == IF last.observed THEN last.current ELSE GetBlockedItems

\* The class of the item collected last.
LastClass == diff[Len(diff)].cls

\* The collecting loop has just classified an item.
JustCollected == diff # <<>> /\ last.key = diff[Len(diff)].key

NeedsApplyKeys == {diff[j].key : j \in {i \in 1..Len(diff) : diff[i].cls = "NeedsApply"}}
BlockedKeys == {diff[j].key : j \in {i \in 1..Len(diff) : diff[i].cls = "BlockedByPrivilege"}}

\* C1: once the apply loop has begun and the pass is over, every item of
\* to_apply has had its provider apply invoked: no failing item stopped the
\* pass before the later ones.
C1_FailureNeverStopsPass ==
    (PassOver /\ invoked # <<>>) => invoked = Keys(to_apply)

\* C2: every item the diff collects has the class the three-way function gives for
\* its desired value, its observed value, requires_admin and the privilege flag.
C2_ThreeWayClassification ==
    JustCollected =>
        LastClass = ThreeWay(config[last.key], ObservedLast,
                             schema.requires_admin[last.key], is_admin)

\* C3: without the privilege, the provider apply of a setting that requires it
\* is never invoked.
C3_PrivilegeGate ==
    \A j \in 1..Len(invoked) : ~(schema.requires_admin[invoked[j]] /\ ~is_admin)

\* C4: when the report is shown, every NeedsApply item is in exactly one of
\* applied and failed, every BlockedByPrivilege item is in blocked, the three
\* groups are pairwise disjoint and hold nothing else, and the two counters
\* add up to the number of NeedsApply items.
C4_ReportPartitions ==
    (pc \in {"pause", "exited"}) =>
        /\ Range(applied) \cup Range(failed) = NeedsApplyKeys
        /\ Range(applied) \cap Range(failed) = {}
        /\ Range(Keys(skipped_admin)) = BlockedKeys
        /\ Range(Keys(skipped_admin)) \cap NeedsApplyKeys = {}
        /\ Len(applied) = Cardinality(Range(applied))
        /\ Len(failed) = Cardinality(Range(failed))
        /\ Len(applied) + Len(failed) = Cardinality(NeedsApplyKeys)
        /\ success_count = Len(applied)
        /\ fail_count = Len(failed)

\* A report with an item of each group.
C4_Witness ==
    /\ pc = "pause"
    /\ applied # <<>>
    /\ failed # <<>>
    /\ skipped_admin # <<>>

\* The class a diff run now gives a setting of the profile, every observe
\* succeeding.
NextDiff(key) ==
    IF key \in SpecialSettings
    THEN ClassifySpecial(config[key])
    ELSE Classify(key, config[key], GetCurrent(key, "ok", sys).value)

\* The provider's write stores the desired value as given, so that its observe
\* reflects its apply.
Reflects(key) == key \in RegularSettings => Written(key, config[key]) = config[key]

C6_ApplyFaultsFolded ==
    \A j \in 1..Len(invoked) : invoked[j] \in Range(applied) \cup Range(failed)

\* C7: an observe that fails gives Unknown, and no observe ends the pass: the
\* process never dies while the settings are collected.
C7_ObserveFailureContained ==
    /\ last.obs_failed => last.current = None
    /\ ~(pc = "crashed" /\ invoked = <<>> /\ raised # "EOFError")

\* C8: an item whose observe failed is never classified InSync.
C8_UnknownNeverInSync ==
    (JustCollected /\ last.obs_failed) => LastClass # "InSync"

\* C9: the --apply invocation that ran to its end exits non-zero exactly when
\* failed is not empty.
C9_ExitCode ==
    (mode = "apply" /\ pc = "exited") => (exit_code # "0" <=> failed # <<>>)

---------------------------------------------------------------------------
\* Properties of the profile store (checked under SpecStore).

\* Registry.validate accepts (key, value).
Accepted(key, value) == key \in Settings /\ ValidValue(key, value)

\* C10: a set_setting call with an invalid (key, value) raises and leaves the
\* in-memory profile and the file as they were.
C10_InvalidSetChangesNothing ==
    [][(call'.op = "set_setting" /\ ~Accepted(call'.key, call'.value))
         => (call'.result = "ValueError" /\ config' = config /\ file' = file)]_vars

\* An invalid set was refused for a key the profile does not hold, on a
\* profile loaded from a file that does not validate.
C10_Witness ==
    /\ call.op = "set_setting"
    /\ ~Accepted(call.key, call.value)
    /\ call.result = "ValueError"
    /\ call.key \notin DOMAIN config
    /\ config # EmptyDict
    /\ ~ValidConfig(config)

---------------------------------------------------------------------------
\* Properties of the profile store, continued (checked under SpecStore).

\* C11: after set_setting(key, value) with a key the schema has and a value
\* that validates, get_setting(key) is that value and has_setting(key) is
\* true, whatever the profile held before the call.
C11_SetThenGet ==
    (call.op = "set_setting" /\ Accepted(call.key, call.value)) =>
        /\ GetSetting(call.key, config) = call.value
        /\ HasSetting(call.key, config)

\* An accepted pair set into a profile that held a value the schema rejects:
\* the save raises, and get_setting gives the new value all the same.
C11_Witness ==
    /\ call.op = "set_setting"
    /\ Accepted(call.key, call.value)
    /\ call.result = "ValueError"
    /\ GetSetting(call.key, config) = call.value

\* The value type and the limits the design's validation reads for a setting.
ValueType(key) ==
    CASE key = "wifi_enabled" -> "boolean"
      [] key = "audio_output_volume" -> "integer"
      [] key = "dock_position" -> "enumeration"
      [] OTHER -> "list"

HasType(value, type) ==
    CASE type = "boolean" -> IsBool(value)
      [] type = "integer" -> IsInt(value)
      [] type = "enumeration" -> IsStr(value)
      [] OTHER -> IsList(value)

\* The design's validation: the four rejections in their precedence.
Validate(key, value) ==
    IF key \notin Settings THEN "UnknownSetting"
    ELSE IF ~HasType(value, ValueType(key)) THEN "TypeMismatch"
    ELSE IF ValueType(key) = "integer"
            /\ (value.i < VolumeMin \/ value.i > VolumeMax) THEN "OutOfRange"
    ELSE IF ValueType(key) = "enumeration" /\ value.s \notin Positions
    THEN "NotInEnum"
    ELSE "Accepted"

C13_PersistedBeforeSuccess ==
    /\ ~file.torn
    /\ (call.op \in {"set_setting", "delete_setting"}
         /\ call.result \in {"ok", "True"}) => file = OnDisk(config)

---------------------------------------------------------------------------
\* Properties of the reconciliation pass, continued (checked under Spec).

\* The collecting loops are over: the diff of this pass is whole.
DiffDone == pc \in {"apply", "pause"} \/ (pc = "exited" /\ mode = "apply")

DiffKeys == [j \in 1..Len(diff) |-> diff[j].key]

\* The place of a setting in the schema source.
SchemaIndex(key) == CHOOSE n \in 1..Len(SchemaOrder) : SchemaOrder[n] = key

\* The place in the schema source of the first setting of key's category.
CategoryIndex(key) ==
    CHOOSE n \in 1..Len(SchemaOrder) :
        /\ schema.category[SchemaOrder[n]] = schema.category[key]
        /\ \A m \in 1..(n - 1) :
               schema.category[SchemaOrder[m]] # schema.category[key]

\* Every setting of the profile that the registry has gives one item.
DiffCoversProfile ==
    /\ Range(DiffKeys) = DOMAIN config \cap Settings
    /\ \A i, j \in 1..Len(diff) : i # j => diff[i].key # diff[j].key

ApplyOver ==
    \/ pc = "pause"
    \/ pc = "exited" /\ mode = "apply"
    \/ pc = "crashed" /\ invoked # <<>>

\* The keys of the NeedsApply items, in the order of the diff.
NeedsApplySeq ==
    LET items == SelectSeq(diff, LAMBDA item : item.cls = "NeedsApply")
    IN  [j \in 1..Len(items) |-> items[j].key]

\* C15: when the apply loop is over, the keys whose set_value was called,
\* in the order of the calls, are the NeedsApply items in the order of the diff.
C15_ApplyInDiffOrder == ApplyOver => invoked = NeedsApplySeq

Count(seq, x) == Cardinality({j \in 1..Len(seq) : seq[j] = x})

\* C16: when the apply loop is over, the set_value of every NeedsApply item
\* was called exactly once, whether it returned True or False.
C16_InvokedExactlyOnce ==
    ApplyOver => \A key \in NeedsApplyKeys : Count(invoked, key) = 1

\* C18: a step of the collecting loops calls no set_value and changes
\* neither the live system nor the profile, in memory or in its file.
C18_DiffChangesNothing ==
    [][pc = "collect" =>
          /\ invoked' = invoked
          /\ sys' = sys
          /\ config' = config
          /\ file' = file]_vars

\* The loops have observed a setting whose read failed and have found
\* something to apply.
C18_Witness ==
    /\ pc = "collect"
    /\ last.observed /\ last.obs_failed
    /\ to_apply # <<>>
    /\ invoked = <<>>

---------------------------------------------------------------------------
\* Properties of the pass run twice (checked under SpecDiff).

\* The collecting loops of the second pass are over.
SecondDiffDone == first.done /\ pc \in {"apply", "pause"}

\* C17: the second pass over the same profile, the same system, the same
\* outcome of every read and the same flag collects the same items with the
\* same classes, and the same two lists, as the first.
C17_DiffDeterministic ==
    SecondDiffDone =>
        /\ diff = first.diff
        /\ to_apply = first.to_apply
        /\ skipped_admin = first.skipped_admin

\* A second pass that found an item to apply, an item to skip and a read
\* that failed, as the first did.
C17_Witness ==
    /\ SecondDiffDone
    /\ pc = "pause"
    /\ to_apply # <<>>
    /\ skipped_admin # <<>>
    /\ \E key \in DOMAIN config : observe[key] = "nonzero"
    /\ diff = first.diff

---------------------------------------------------------------------------
\* Properties of the interactive process (checked under SpecSelector).

\* C19: all the passes of the process, over every profile it opens, read
\* one and the same value of the privilege flag.
C19_FlagEvaluatedOnce == Cardinality(flags) <= 1

---------------------------------------------------------------------------
\* Termination of the pass (checked under SpecLive).

\* C20: a pass that has started gets to its report: the summary with the
\* counts, or the note that nothing was to apply, is on the screen.
C20_PassCompletes == (pc = "collect") ~> (pc = "pause")

---------------------------------------------------------------------------
\* C23: exactly the settings the profile sets are reconciled.

\* The settings the collecting loops have gone past.
Collected ==
    IF pc = "collect" THEN {Registry[j] : j \in 1..(pos - 1)}
    ELSE IF DiffDone THEN Range(Registry)
    ELSE {}

\* A desired value Python takes for false: False, 0, "", [] and {}.
Falsy(value) == value # None /\ ~Truthy(value)

\* C23: a setting the profile does not hold has no item, is not the setting
\* whose live value was read last, is in neither list and has no set_value
\* called; every setting the profile holds that the loops have gone past has
\* an item, whether its desired value is falsy or not.
C23_ExactlySetReconciled ==
    /\ \A key \in Settings \ DOMAIN config :
          /\ key \notin Range(DiffKeys)
          /\ key # last.key
          /\ key \notin Range(Keys(to_apply)) \cup Range(Keys(skipped_admin))
          /\ key \notin Range(invoked)
    /\ \A key \in Collected : key \in DOMAIN config <=> key \in Range(DiffKeys)

\* A whole diff over a profile that sets one setting to False, another to
\* the empty mapping and leaves a third unset: the first was read and
\* classified, the second has an item and is not applied.
C23_Witness ==
    /\ DiffDone
    /\ "wifi_enabled" \in DOMAIN config
    /\ Falsy(config["wifi_enabled"])
    /\ "wifi_enabled" \in NeedsApplyKeys
    /\ "system_extension_preferences" \in DOMAIN config
    /\ Falsy(config["system_extension_preferences"])
    /\ "system_extension_preferences" \in Range(DiffKeys)
    /\ "audio_output_volume" \notin DOMAIN config

---------------------------------------------------------------------------
\* C25: no rollback.

\* The step is an iteration of the apply loop whose set_value returned False
\* or raised.
ItemFails ==
    /\ pc = "apply"
    /\ Len(invoked') = Len(invoked) + 1
    /\ Len(applied') = Len(applied) \/ pc' = "crashed"

\* C25: an iteration of the apply loop whose item fails leaves applied as it
\* was and leaves the live value of every setting applied before it.
C25_NoRollback ==
    [][ItemFails =>
          /\ applied' = applied
          /\ \A key \in Range(applied) \cap RegularSettings : sys'[key] = sys[key]]_vars

\* A pass in which an item failed after another had been applied: the first
\* is still in applied and the system still has its desired value.
C25_Witness ==
    /\ Len(invoked) >= 2
    /\ failed # <<>>
    /\ invoked[Len(invoked)] = failed[Len(failed)]
    /\ invoked[1] \in Range(applied) \cap RegularSettings
    /\ sys[invoked[1]] = Written(invoked[1], config[invoked[1]])

---------------------------------------------------------------------------
\* C27: the list and mapping settings skip the diff.

\* The items of the list and mapping settings collected so far: a non-empty
\* desired value is in to_apply, an empty one is not; none is in
\* skipped_admin, and none had its live value read.
SpecialsCollected ==
    \A j \in 1..Len(diff) :
        diff[j].key \in SpecialSettings =>
            LET key == diff[j].key
            IN  /\ diff[j].cls = IF Truthy(config[key]) THEN "NeedsApply" ELSE "InSync"
                /\ Truthy(config[key]) <=> key \in Range(Keys(to_apply))
                /\ key \notin Range(Keys(skipped_admin))
                /\ last.key = key => ~last.observed

\* The step is the iteration of the collecting loops for a list or mapping
\* setting.
SpecialIteration ==
    /\ pc = "collect"
    /\ pos <= Len(Registry)
    /\ Registry[pos] \in SpecialSettings
    /\ pos' = pos + 1

\* C27: in every pass, a list or mapping setting with a non-empty desired
\* value is put in to_apply and one with an empty value is neither applied
\* nor blocked; its iteration reads neither the live system nor the flag,
\* whatever requires_admin says.
C27_ListsSkipDiff ==
    /\ []SpecialsCollected
    /\ [][SpecialIteration =>
            /\ sys' = sys
            /\ flags' = flags
            /\ skipped_admin' = skipped_admin
            /\ pc' = "collect"]_vars

\* A whole diff by a user without the privilege, under a schema that requires
\* it for the list and mapping settings: the non-empty mapping is in
\* to_apply, the empty list is not, and the flag was never read.
C27_Witness ==
    /\ DiffDone
    /\ ~is_admin
    /\ \A key \in SpecialSettings : schema.requires_admin[key]
    /\ "system_extension_preferences" \in Range(Keys(to_apply))
    /\ "background_app_permissions" \in Range(Keys(to_apply))
    /\ "startup_items_blocked" \in Range(DiffKeys)
    /\ "startup_items_blocked" \notin Range(Keys(to_apply))
    /\ flags = {}

---------------------------------------------------------------------------
\* C29 and C30: the list and mapping handlers.

\* The bundle ids of the attempts of a call, in the order they were made.
AttemptedBundles == [j \in 1..Len(hcall.attempts) |-> hcall.attempts[j].bundle_id]
\* The names of the deletions of a call, in the order they were run.
AttemptedNames == [j \in 1..Len(hcall.attempts) |-> hcall.attempts[j].name]
\* The attempts of a call that did not end well.
FailedAttempts == {j \in 1..Len(hcall.attempts) : hcall.attempts[j].exit # "ok"}

\* C29: set_extension_preferences attempts every bundle id of the mapping
\* exactly once, whatever the attempts before it gave, and returns: True when
\* an attempt succeeded or none failed, False only when every attempt failed.
C29_ExtensionPreferences ==
    hcall.op = "set_extension_preferences" =>
        /\ \A bundle_id \in DOMAIN hcall.arg.m :
              Count(AttemptedBundles, bundle_id) = 1
        /\ Range(AttemptedBundles) = DOMAIN hcall.arg.m
        /\ hcall.exc = ""
        /\ hcall.ok <=> (FailedAttempts # 1..Len(hcall.attempts)
                         \/ FailedAttempts = {})

\* What of C29 holds: a call that returns has attempted every bundle id once
\* and returns False only when every attempt failed.
C29_WhenItReturns ==
    (hcall.op = "set_extension_preferences" /\ hcall.exc = "") =>
        /\ \A bundle_id \in DOMAIN hcall.arg.m :
              Count(AttemptedBundles, bundle_id) = 1
        /\ Range(AttemptedBundles) = DOMAIN hcall.arg.m
        /\ hcall.ok <=> (FailedAttempts # 1..Len(hcall.attempts)
                         \/ FailedAttempts = {})

\* C30: set_blocked_items runs the deletion of every blocked name that is a
\* login item, once, and of no other name; it returns False exactly when a
\* deletion it ran failed; for the empty list it returns True and does not
\* ask for the login items.
C30_BlockedItems ==
    hcall.op = "set_blocked_items" =>
        /\ \A name \in Range(hcall.arg.l) :
              Count(AttemptedNames, name) = IF name \in hcall.items THEN 1 ELSE 0
        /\ hcall.items \ Range(hcall.arg.l) \subseteq hcall.after
        /\ hcall.exc = ""
        /\ ~hcall.ok <=> FailedAttempts # {}
        /\ hcall.arg.l = <<>> => hcall.ok /\ ~hcall.read

---------------------------------------------------------------------------
\* C24: delete_setting (checked under SpecStore).

\* The step is a call of delete_setting.
DeleteStep == \E key \in StoreKeys, w \in WriteOutcomes : DeleteSettingCall(key, w)

\* C24: delete_setting(key) returns True exactly when the profile held the
\* key; after the call the profile does not hold it and holds every other
\* key with the value it had; for a key the profile did not hold it returns
\* False and neither the profile nor the file changes.
C24_Unset ==
    [][DeleteStep =>
          LET key == call'.key
          IN  /\ call'.result = "True" <=> key \in DOMAIN config
              /\ call'.result = "False" <=> key \notin DOMAIN config
              /\ ~HasSetting(key, config')
              /\ GetSetting(key, config') = None
              /\ config' = DictDel(config, key)
              /\ key \notin DOMAIN config => file' = file]_vars

\* What of C24 holds: a call that returns gives True exactly for a key the
\* profile held, and whether it returns or raises the profile in memory is
\* the old one without the key.
C24_WhenItReturns ==
    [][DeleteStep =>
          LET key == call'.key
          IN  /\ call'.result = "True" => key \in DOMAIN config
              /\ call'.result = "False" <=> key \notin DOMAIN config
              /\ ~HasSetting(key, config')
              /\ GetSetting(key, config') = None
              /\ config' = DictDel(config, key)
              /\ key \notin DOMAIN config => file' = file]_vars

---------------------------------------------------------------------------
\* C26: the persisted profile round-trips (checked under SpecSaved).

\* The last call saved the profile: save_config validated it and wrote it.
Saved ==
    \/ call.op = "set_setting" /\ call.result = "ok"
    \/ call.op = "delete_setting" /\ call.result = "True"

\* C26: when a valid profile has been saved, loading the file gives the
\* profile in memory: the same keys, each with the same value.
C26_RoundTrip ==
    Saved =>
        /\ ValidConfig(config)
        /\ LoadConfig(file).exc = ""
        /\ DOMAIN LoadConfig(file).config = DOMAIN config
        /\ \A key \in DOMAIN config : LoadConfig(file).config[key] = config[key]

\* A saved profile that holds a boolean, a number, a string, a list with a
\* name and a mapping with two entries.
C26_Witness ==
    /\ Saved
    /\ file.exists
    /\ DOMAIN config = Settings \ {"background_app_permissions"}
    /\ IsBool(config["wifi_enabled"])
    /\ config["audio_output_volume"] = PyInt(0)
    /\ Truthy(config["dock_position"])
    /\ Truthy(config["startup_items_blocked"])
    /\ Cardinality(DOMAIN config["system_extension_preferences"].m) = 2

---------------------------------------------------------------------------
\* C21: unresolved provider bindings (checked under SpecBuild).

\* The settings of the schema whose handler entry does not give a handler
\* with the two methods of the setting.
Unresolved == {key \in Settings : Resolve(schema, key) # "bound"}

\* A MacConfigurator has been constructed, or its construction has raised.
Constructed == file.exists

\* C21: the construction never raises; once it is over the registry holds
\* exactly the settings whose binding resolves, and a warning names every
\* other setting of the schema.
C21_UnresolvedDropped ==
    Constructed =>
        /\ raised # "AttributeError"
        /\ Range(categories) = Settings \ Unresolved
        /\ Unresolved \subseteq warned

\* What of C21 holds: a construction that does not raise leaves out exactly
\* the unresolved settings, with a warning for each, and no pass gives one of
\* them an item or calls its set_value.
C21_WhenBuilt ==
    (Constructed /\ raised # "AttributeError") =>
        /\ Range(categories) = Settings \ Unresolved
        /\ Unresolved \subseteq warned
        /\ Unresolved \cap (Range(DiffKeys) \cup Range(invoked)) = {}

---------------------------------------------------------------------------
\* C22: profile ids that resolve to no setting (checked under Spec).

\* The ids the profile holds that the registry does not.
Unregistered == DOMAIN config \ Range(Registry)

\* C22: an id of the profile that the registry does not hold gets no item,
\* no read and no set_value and is in none of the lists; when the diff is
\* done a diagnostic has named it, and every other id of the profile has
\* its item.
C22_UnresolvedSkipped ==
    /\ \A key \in Unregistered :
          /\ key \notin Range(DiffKeys) \cup Range(invoked)
          /\ key \notin Range(applied) \cup Range(failed)
          /\ key \notin Range(Keys(to_apply)) \cup Range(Keys(skipped_admin))
          /\ key # last.key
    /\ DiffDone =>
          /\ Unregistered \subseteq warned
          /\ Range(DiffKeys) = DOMAIN config \ Unregistered

\* What of C22 holds: everything but the diagnostic.
C22_SkippedSilently ==
    /\ \A key \in Unregistered :
          /\ key \notin Range(DiffKeys) \cup Range(invoked)
          /\ key \notin Range(applied) \cup Range(failed)
          /\ key \notin Range(Keys(to_apply)) \cup Range(Keys(skipped_admin))
          /\ key # last.key
    /\ DiffDone => Range(DiffKeys) = DOMAIN config \ Unregistered

---------------------------------------------------------------------------
\* C28: profile names and the names of their files (checked under SpecNames).

\* The names list_config_files reports.
ListedNames == {ListedName(f) : f \in dir}

\* C28: a profile that has just been created is listed under its name; no
\* two profile files are listed under one name; and the profile opened or
\* deleted by its listed name is the file that was listed.
C28_NamesSurvive ==
    /\ (call.op = "create_config" /\ call.result = "created") =>
          call.key \in ListedNames
    /\ \A f1, f2 \in dir : f1 # f2 => ListedName(f1) # ListedName(f2)
    /\ call.op \in {"delete_config", "edit_config"} =>
          GetConfigPath(call.key) = call.value

\* What of C28 holds: for the names without "_config" in them.
C28_PlainNames ==
    (\A f \in dir : ListedName(f) = SubSeq(f, 1, Len(f) - 1)) =>
        /\ (call.op = "create_config" /\ call.result = "created") =>
              call.key \in ListedNames
        /\ \A f1, f2 \in dir : f1 # f2 => ListedName(f1) # ListedName(f2)
        /\ call.op \in {"delete_config", "edit_config"} =>
              GetConfigPath(call.key) = call.value

====
